---- MODULE Spec2Model ----
(***************************************************************************)
(* BillBuster: the schedule compiler (load_csv, generate_intervals) and    *)
(* the device programming transaction (_program_inverter) of               *)
(* inverter_logic.py, driven by the coordinator's _async_update_data.      *)
(* Instants are whole seconds; a wall-clock string "HH:MM" is the pair     *)
(* <<hour, minute>>.                                                       *)
(***************************************************************************)
EXTENDS Integers, Sequences, FiniteSets, TLC

VARIABLES
    pc,            \* position of the cycle (or of the generate_intervals run)
    self_entry,    \* self.entry, the config entry the attributes were read from
    csv,           \* the file load_csv found at the CSV path in this cycle
    address,       \* arguments of SellProgrammer(...) in this cycle
    cfg,           \* the six configuration attributes of the inverter object
    df,            \* self.df, the reading table
    intervals_df,  \* the schedule returned by generate_intervals
    index,         \* position of the iterrows loop of _program_inverter
    session,       \* TRUE once the SellProgrammer object exists
    err,           \* the exception pending in _program_inverter
    ops,           \* device operations attempted in this cycle, in order
    written,       \* arguments of the update_program calls of this cycle
    ret,           \* what async_run_schedule_update returned
    next_run,      \* self.next_run
    result         \* what _async_update_data returned or raised

vars == <<pc, self_entry, csv, address, cfg, df, intervals_df, index, session, err,
          ops, written, ret, next_run, result>>

----------------------------------------------------------------------------
(* Bounds of the model *)

\* longest reading sequence given to generate_intervals alone
MaxRows == 7
\* longest reading sequence loaded in a full cycle
MaxCycleRows == 3

(* Program constants *)

\* intervals_df.head(6), range(6 - len(intervals_df))
NSlots == 6
\* timedelta(minutes=1), in seconds
MinuteSecs == 60

Min(a, b) == IF a < b THEN a ELSE b

\* values of the P_hybrid_inverter column
Powers == {0 - 1, 0, 1}
\* first timestamp of a file, and the distance between two rows of a file
Bases == {0, 3600}
Steps == {0, 30, 900}

----------------------------------------------------------------------------
(* Configuration entry and the attributes read from it *)

CONF_INVERTER_IP == "inverter_ip"
CONF_INVERTER_SERIAL == "inverter_serial"
CONF_INVERTER_POWER == "inverter_power"
CONF_PEAK_CHARGE_POWER == "peak_charging_power"
CONF_MIN_SOC == "min_soc"
CONF_MAX_SOC == "max_soc"

\* Python's None among integer values
NoneVal == 0 - 1

EmptyDict == [k \in {} |-> 0]

\* dict.get(key, default)
DictGet(d, key, default) == IF key \in DOMAIN d THEN d[key] ELSE default

\* entry.options.get(key, entry.data.get(key))
EntryGet(entry, key) ==
    DictGet(entry.options, key, DictGet(entry.data, key, NoneVal))

\* the data dict the config flow stores: its keys are the CONF_ constants
FlowDict(ip, serial, power, peak, lo, hi) ==
    (CONF_INVERTER_IP :> ip) @@ (CONF_INVERTER_SERIAL :> serial) @@
    (CONF_INVERTER_POWER :> power) @@ (CONF_PEAK_CHARGE_POWER :> peak) @@
    (CONF_MIN_SOC :> lo) @@ (CONF_MAX_SOC :> hi)

Entries ==
    { [data |-> FlowDict(1, 7, 8000, 3000, 10, 95), options |-> EmptyDict],
      [data |-> FlowDict(1, 7, 8000, 3000, 10, 95),
       options |-> FlowDict(2, 9, 6000, 2000, 20, 80)] }

\* BaseInverter.__init__: the six attributes
InitConfig(entry) ==
    [ inverter_ip       |-> EntryGet(entry, CONF_INVERTER_IP),
      inverter_serial   |-> EntryGet(entry, CONF_INVERTER_SERIAL),
      inverter_power    |-> EntryGet(entry, CONF_INVERTER_POWER),
      peak_charge_power |-> EntryGet(entry, CONF_PEAK_CHARGE_POWER),
      minSoC_percent    |-> EntryGet(entry, CONF_MIN_SOC),
      maxSoC_percent    |-> EntryGet(entry, CONF_MAX_SOC) ]

\* BaseInverter.update_from_config_entry: the six attributes, read with the
\* keys the method spells out
update_from_config_entry(entry) ==
    [ inverter_ip       |-> EntryGet(entry, "inverter_ip"),
      inverter_serial   |-> EntryGet(entry, "inverter_serial"),
      inverter_power    |-> EntryGet(entry, "inverter_power"),
      peak_charge_power |-> EntryGet(entry, "peak_charge_power"),
      minSoC_percent    |-> EntryGet(entry, "min_soc"),
      maxSoC_percent    |-> EntryGet(entry, "max_soc") ]

\* entries whose options the options flow has stored
UpdatedEntries == { e \in Entries : e.options # EmptyDict }

\* every value the six attributes can take
AllConfigs ==
    { InitConfig(e) : e \in Entries } \cup
    { update_from_config_entry(e) : e \in UpdatedEntries }

----------------------------------------------------------------------------
(* The reading table *)

\* self.df = None
NoneDF == [isNone |-> TRUE, hasP |-> FALSE, numericP |-> FALSE,
           rows |-> <<>>, mode |-> <<>>]
\* pd.DataFrame()
EmptyDF == [isNone |-> FALSE, hasP |-> FALSE, numericP |-> FALSE,
            rows |-> <<>>, mode |-> <<>>]

\* df.empty
IsEmpty(d) == Len(d.rows) = 0

Reverse(s) == [i \in 1..Len(s) |-> s[Len(s) + 1 - i]]

\* the rows of a file: n readings, step seconds apart, powers pw
MkRows(n, base, step, pw) ==
    [i \in 1..n |-> [timestamp |-> base + (i - 1) * step,
                     P_hybrid_inverter |-> pw[i]]]

\* a CSV file as read_csv sees it
MkFile(exists, parses, hasP, numericP, rows) ==
    [exists |-> exists, parses |-> parses, hasP |-> hasP,
     numericP |-> numericP, rows |-> rows]

\* a file of n readings, in ascending or (reversed) descending order
GoodFile(n, base, step, pw, reversed) ==
    MkFile(TRUE, TRUE, TRUE, TRUE,
           IF reversed THEN Reverse(MkRows(n, base, step, pw))
           ELSE MkRows(n, base, step, pw))

\* _resolve_csv_path returns None: nothing at the CSV path
NoFile == MkFile(FALSE, FALSE, FALSE, FALSE, <<>>)

\* files load_csv or generate_intervals rejects
BadFiles ==
    { NoFile,

      MkFile(TRUE, FALSE, FALSE, FALSE, <<>>),       \* read_csv raises
      MkFile(TRUE, TRUE, TRUE, TRUE, <<>>),          \* header, no rows
      MkFile(TRUE, TRUE, FALSE, FALSE,               \* no P_hybrid_inverter
             MkRows(2, 0, 900, <<0, 0>>)),
      MkFile(TRUE, TRUE, TRUE, FALSE,                \* P_hybrid_inverter is text
             MkRows(2, 0, 900, <<0, 0>>)) }

RECURSIVE InsertRow(_, _)
InsertRow(sorted, r) ==
    IF sorted = <<>> THEN <<r>>
    ELSE IF sorted[Len(sorted)].timestamp <= r.timestamp
         THEN Append(sorted, r)
         ELSE Append(InsertRow(SubSeq(sorted, 1, Len(sorted) - 1), r),
                     sorted[Len(sorted)])

RECURSIVE sort_values(_)
\* df.sort_values("timestamp"): ascending, equal timestamps keep their order
sort_values(rows) ==
    IF rows = <<>> THEN <<>>
    ELSE InsertRow(sort_values(SubSeq(rows, 1, Len(rows) - 1)), rows[Len(rows)])

\* BaseInverter.load_csv: the table it leaves in self.df and what it returns
NotResolved_KeepsTable == [df |-> df, success |-> TRUE]

\* if not resolved_path: self.df = pd.DataFrame(); return False
NotResolved == [df |-> EmptyDF, success |-> FALSE]

load_csv(file) ==
    IF ~file.exists THEN NotResolved
    ELSE IF ~file.parses THEN [df |-> EmptyDF, success |-> FALSE]
    ELSE LET read == [isNone |-> FALSE, hasP |-> file.hasP,
                      numericP |-> file.numericP, rows |-> file.rows,
                      mode |-> <<>>]
         IN IF IsEmpty(read) THEN [df |-> read, success |-> FALSE]
            ELSE [df |-> [read EXCEPT !.rows = sort_values(file.rows)],
                  success |-> TRUE]

----------------------------------------------------------------------------
(* generate_intervals *)

get_mode_ZeroIsCharge(p) ==
    IF p > 0 THEN "discharge" ELSE "charge"

get_mode(p) ==
    IF p > 0 THEN "discharge"
    ELSE IF p < 0 THEN "charge"
    ELSE "idle"

\* pd.DataFrame(list of dicts): rows labelled 0..n-1
DataFrame(list) ==
    [i \in 1..Len(list) |-> [index |-> i - 1,
                             start_time |-> list[i].start_time,
                             stop_time |-> list[i].stop_time,
                             mode |-> list[i].mode]]

RECURSIVE CoalesceLoop_StopAtCurrent(_, _, _, _, _, _)
CoalesceLoop_StopAtCurrent(rows, mode, i, start_time, current_mode, intervals) ==
    IF i > Len(rows)
    THEN Append(intervals, [start_time |-> start_time,
                            stop_time |-> rows[Len(rows)].timestamp,
                            mode |-> current_mode])
    ELSE IF mode[i] # current_mode
         THEN CoalesceLoop_StopAtCurrent(rows, mode, i + 1,
                  rows[i].timestamp, mode[i],
                  Append(intervals, [start_time |-> start_time,
                                     stop_time |-> rows[i].timestamp,
                                     mode |-> current_mode]))
         ELSE CoalesceLoop_StopAtCurrent(rows, mode, i + 1, start_time,
                                         current_mode, intervals)

RECURSIVE CoalesceLoop(_, _, _, _, _, _)
\* the for loop over range(1, len(self.df)) and the closing append
CoalesceLoop(rows, mode, i, start_time, current_mode, intervals) ==
    IF i > Len(rows)
    THEN Append(intervals, [start_time |-> start_time,
                            stop_time |-> rows[Len(rows)].timestamp,
                            mode |-> current_mode])
    ELSE LET new_mode == mode[i]
             timestamp == rows[i].timestamp
             prev_timestamp == rows[i - 1].timestamp
         IN IF new_mode # current_mode
            THEN CoalesceLoop(rows, mode, i + 1, timestamp, new_mode,
                     Append(intervals, [start_time |-> start_time,
                                        stop_time |-> prev_timestamp,
                                        mode |-> current_mode]))
            ELSE CoalesceLoop(rows, mode, i + 1, start_time, current_mode,
                              intervals)

\* the raw intervals of a table with its mode column
RawIntervals(rows, mode) ==
    CoalesceLoop(rows, mode, 2, rows[1].timestamp, mode[1], <<>>)

head_Tail(frame, n) ==
    SubSeq(frame, Len(frame) - Min(n, Len(frame)) + 1, Len(frame))

head_AllRows(frame, n) == frame

\* DataFrame.head(n)
head(frame, n) == SubSeq(frame, 1, Min(n, Len(frame)))

\* pd.concat([frame, one row], ignore_index=True)
concat(frame, row) ==
    [i \in 1..(Len(frame) + 1) |->
        IF i <= Len(frame)
        THEN [frame[i] EXCEPT !.index = i - 1]
        ELSE [index |-> i - 1, start_time |-> row.start_time,
              stop_time |-> row.stop_time, mode |-> row.mode]]

RECURSIVE PadLoop_StaleLastStop(_, _, _)
PadLoop_StaleLastStop(frame, last_stop, passes) ==
    IF passes = 0 THEN frame
    ELSE PadLoop_StaleLastStop(
             concat(frame, [start_time |-> last_stop + MinuteSecs,
                            stop_time |-> last_stop + MinuteSecs + MinuteSecs,
                            mode |-> "idle"]),
             last_stop, passes - 1)

RECURSIVE PadLoop_Contiguous(_, _, _)
PadLoop_Contiguous(frame, last_stop, passes) ==
    IF passes = 0 THEN frame
    ELSE PadLoop_Contiguous(
             concat(frame, [start_time |-> last_stop,
                            stop_time |-> last_stop + MinuteSecs,
                            mode |-> "idle"]),
             last_stop + MinuteSecs, passes - 1)

RECURSIVE PadLoop(_, _, _)
\* the padding loop: one synthetic idle row per pass
PadLoop(frame, last_stop, passes) ==
    IF passes = 0 THEN frame
    ELSE LET next_start == last_stop + MinuteSecs
             next_stop == next_start + MinuteSecs
         IN PadLoop(concat(frame, [start_time |-> next_start,
                                   stop_time |-> next_stop,
                                   mode |-> "idle"]),
                    next_stop, passes - 1)

SetColumn_KeepActiveRows(d, mode) ==
    [d EXCEPT !.rows = SelectSeq(d.rows, LAMBDA r :
                           get_mode(r.P_hybrid_inverter) # "idle"),
              !.mode = SelectSeq(mode, LAMBDA m : m # "idle")]

\* self.df["mode"] = ...: the column is added to, or replaced in, self.df
SetColumn(d, mode) == [d EXCEPT !.mode = mode]

\* DeyeInverter.generate_intervals: the table it leaves in self.df and the
\* frame it returns (<<>> is the empty DataFrame)
generate_intervals(d) ==
    IF d.isNone \/ IsEmpty(d) THEN [df |-> d, intervals_df |-> <<>>]
    ELSE IF ~d.hasP THEN [df |-> d, intervals_df |-> <<>>]
    ELSE IF ~d.numericP
         THEN [df |-> d, intervals_df |-> <<>>]  \* get_mode raises TypeError
    ELSE LET mode == [i \in 1..Len(d.rows) |->
                         get_mode(d.rows[i].P_hybrid_inverter)]
             raw == DataFrame(RawIntervals(d.rows, mode))
             kept == head(raw, NSlots)
             padded == IF Len(kept) < NSlots
                       THEN PadLoop(kept, kept[Len(kept)].stop_time,
                                    NSlots - Len(kept))
                       ELSE kept
         IN [df |-> SetColumn(d, mode), intervals_df |-> padded]

----------------------------------------------------------------------------
(* _program_inverter: the arguments of one update_program call *)

\* strftime("%H:%M")
strftime(t) == <<(t \div (60 * MinuteSecs)) % 24, (t \div MinuteSecs) % 60>>

SlotIndex_OneBased(interval) == interval.index + 1

\* index=index, the label iterrows yields
SlotIndex(interval) == interval.index

SlotRecord(interval, stop_time_dt, soc, power) ==
    [ index   |-> SlotIndex(interval),
      start_t |-> strftime(interval.start_time),
      stop_t  |-> strftime(stop_time_dt),
      soc     |-> soc,
      power   |-> power,
      grid_ch |-> (interval.mode = "charge"),
      gen_ch  |-> FALSE ]

SlotArgs_NoWiden(c, interval) ==
    SlotRecord(interval, interval.stop_time,
               IF interval.mode = "charge" THEN c.maxSoC_percent
               ELSE c.minSoC_percent,
               IF interval.mode = "idle" THEN 1
               ELSE IF interval.mode = "charge" THEN c.peak_charge_power
               ELSE c.inverter_power)

SlotArgs_RatedPowerOnCharge(c, interval) ==
    SlotRecord(interval,
               IF interval.start_time = interval.stop_time
               THEN interval.stop_time + MinuteSecs ELSE interval.stop_time,
               IF interval.mode = "charge" THEN c.maxSoC_percent
               ELSE c.minSoC_percent,
               IF interval.mode = "idle" THEN 1 ELSE c.inverter_power)

SlotArgs_NoIdleFloor(c, interval) ==
    SlotRecord(interval,
               IF interval.start_time = interval.stop_time
               THEN interval.stop_time + MinuteSecs ELSE interval.stop_time,
               IF interval.mode = "charge" THEN c.maxSoC_percent
               ELSE c.minSoC_percent,
               IF interval.mode = "charge" THEN c.peak_charge_power
               ELSE c.inverter_power)

\* the body of the for loop up to the update_program call
SlotArgs(c, interval) ==
    LET mode == interval.mode
        stop_time_dt == IF interval.start_time = interval.stop_time
                        THEN interval.stop_time + MinuteSecs
                        ELSE interval.stop_time
        soc == IF mode = "charge" THEN c.maxSoC_percent ELSE c.minSoC_percent
        power == IF mode = "idle" THEN 1
                 ELSE IF mode = "charge" THEN c.peak_charge_power
                 ELSE c.inverter_power
    IN [ index   |-> SlotIndex(interval),
         start_t |-> strftime(interval.start_time),
         stop_t  |-> strftime(stop_time_dt),
         soc     |-> soc,
         power   |-> power,
         grid_ch |-> (mode = "charge"),
         gen_ch  |-> FALSE ]

Op(name, ok) == [op |-> name, ok |-> ok]

----------------------------------------------------------------------------
(* Control flow of async_run_schedule_update and _program_inverter *)

LoadAborts_SuccessOnly(success, d) == FALSE

\* if not success or self.df is None or self.df.empty
LoadAborts(success, d) == ~success \/ d.isNone \/ IsEmpty(d)

NoIntervals_Never(frame) == FALSE

\* if intervals_df is None or intervals_df.empty
NoIntervals(frame) == frame = <<>>

ConnectFailed_Finally == "disconnect"

\* SellProgrammer(...) stands before the try: its exception leaves
\* _program_inverter at once
ConnectFailed == "return"

Raised_NoFinally == "return"

\* except: log and raise; the finally clause runs next
Raised == "disconnect"

AfterWrite_Continue(ok, i, n) ==
    IF i + 1 < n THEN "update_program" ELSE "show_as_screen"

\* after update_program for row i (0-based) of n
AfterWrite(ok, i, n) ==
    IF ~ok THEN Raised
    ELSE IF i + 1 < n THEN "update_program" ELSE "show_as_screen"

AfterShow_Continue(ok) == "upload_settings"

\* after show_as_screen
AfterShow(ok) == IF ok THEN "upload_settings" ELSE Raised

\* after upload_settings: the try block ends, the finally clause runs
AfterUpload(ok) == IF ok THEN "disconnect" ELSE Raised

ErrAfterDisconnect_Escalate(e, ok) == IF ok THEN e ELSE "disconnect"

\* except Exception around disconnect(): logged, the pending exception stays
ErrAfterDisconnect(e, ok) == e

Outcome_Escapes(e) == IF e = "none" THEN "True" ELSE "raised"

\* try: await ...; return True / except Exception: return False
Outcome(e) == IF e = "none" THEN "True" ELSE "False"

----------------------------------------------------------------------------
(* Specification of generate_intervals alone, on every loaded table *)

NoRun == [type |-> "NoneType", value |-> 0]

InitGen ==
    /\ pc = "gen_call"
    /\ \E e \in Entries : self_entry = e /\ cfg = InitConfig(e)
    /\ csv = NoFile
    /\ address = <<>>
    /\ \E n \in 1..MaxRows, b \in Bases, s \in Steps, reversed \in BOOLEAN :
          \E pw \in [1..n -> Powers] :
             df = load_csv(GoodFile(n, b, s, pw, reversed)).df
    /\ intervals_df = <<>>
    /\ index = 0
    /\ session = FALSE
    /\ err = "none"
    /\ ops = <<>>
    /\ written = <<>>
    /\ ret = "none"
    /\ next_run = NoRun
    /\ result = "none"

GenerateOnly ==
    /\ pc = "gen_call"
    /\ LET g == generate_intervals(df)
       IN /\ df' = g.df
          /\ intervals_df' = g.intervals_df
    /\ pc' = "gen_done"
    /\ UNCHANGED <<self_entry, csv, address, cfg, index, session, err, ops, written, ret, next_run,
                   result>>

\* the loop body of _program_inverter applied to every row of the schedule
MapSlotsOnly ==
    /\ pc = "gen_done"
    /\ written' = [k \in 1..Len(intervals_df) |->
                       SlotArgs(cfg, intervals_df[k])]
    /\ pc' = "gen_mapped"
    /\ UNCHANGED <<self_entry, csv, address, cfg, df, intervals_df, index, session, err, ops, ret,
                   next_run, result>>

\* generate_intervals called once more on the table the first call left
GenerateAgain ==
    /\ pc = "gen_done"
    /\ LET g == generate_intervals(df)
       IN /\ df' = g.df
          /\ intervals_df' = g.intervals_df
    /\ pc' = "gen_again"
    /\ UNCHANGED <<self_entry, csv, address, cfg, index, session, err, ops,
                   written, ret, next_run, result>>

NextGen ==
    \/ GenerateOnly
    \/ MapSlotsOnly
    \/ GenerateAgain

SpecGen == InitGen /\ [][NextGen]_vars

----------------------------------------------------------------------------
(* One cycle: _async_update_data -> async_run_schedule_update ->           *)
(* _program_inverter, one step per blocking call                           *)

\* the files a cycle may find at the CSV path
CycleFiles ==
    BadFiles \cup
    UNION { { GoodFile(n, b, s, pw, reversed) : pw \in [1..n -> Powers] } :
            <<n, b, s, reversed>> \in
                (1..MaxCycleRows) \X Bases \X Steps \X BOOLEAN }

Init ==
    /\ pc = "idle"
    /\ \E e \in Entries : self_entry = e /\ cfg = InitConfig(e)
    /\ csv = NoFile
    /\ address = <<>>
    /\ df = NoneDF
    /\ intervals_df = <<>>
    /\ index = 0
    /\ session = FALSE
    /\ err = "none"
    /\ ops = <<>>
    /\ written = <<>>
    /\ ret = "none"
    /\ next_run = NoRun
    /\ result = "none"

\* _async_update_data is called: a new cycle begins
AsyncUpdateDataBegin ==
    /\ pc = "idle"
    /\ pc' = "load_csv"
    /\ intervals_df' = <<>>
    /\ index' = 0
    /\ session' = FALSE
    /\ err' = "none"
    /\ ops' = <<>>
    /\ written' = <<>>
    /\ ret' = "none"
    /\ result' = "none"
    /\ address' = <<>>
    /\ UNCHANGED <<self_entry, csv, cfg, df, next_run>>

\* await load_csv, then the check of its result
LoadCsv ==
    /\ pc = "load_csv"
    /\ \E file \in CycleFiles :
          LET l == load_csv(file)
          IN /\ csv' = file
             /\ df' = l.df
             /\ IF LoadAborts(l.success, l.df)
                THEN ret' = "False" /\ pc' = "update_done"
                ELSE ret' = ret /\ pc' = "generate_intervals"
    /\ UNCHANGED <<self_entry, address, cfg, intervals_df, index, session, err, ops, written,
                   next_run, result>>

\* await generate_intervals, then the check of its result
GenerateIntervals ==
    /\ pc = "generate_intervals"
    /\ LET g == generate_intervals(df)
       IN /\ df' = g.df
          /\ intervals_df' = g.intervals_df
          /\ IF NoIntervals(g.intervals_df)
             THEN ret' = "False" /\ pc' = "update_done"
             ELSE ret' = ret /\ pc' = "connect"
    /\ UNCHANGED <<self_entry, csv, address, cfg, index, session, err, ops, written, next_run, result>>

\* inverter_program = SellProgrammer(ip, serial)
Connect ==
    /\ pc = "connect"
    /\ \E ok \in BOOLEAN :
          /\ ops' = Append(ops, Op("SellProgrammer", ok))
          /\ session' = ok
          /\ err' = IF ok THEN err ELSE "SellProgrammer"
          /\ pc' = IF ~ok THEN ConnectFailed
                   ELSE IF Len(intervals_df) = 0 THEN "show_as_screen"
                   ELSE "update_program"
    /\ address' = <<cfg.inverter_ip, cfg.inverter_serial>>
    /\ index' = 0
    /\ UNCHANGED <<self_entry, csv, cfg, df, intervals_df, written, ret, next_run,
                   result>>

\* one pass of the for loop over intervals_df.iterrows()
UpdateProgram ==
    /\ pc = "update_program"
    /\ \E ok \in BOOLEAN :
          /\ written' = Append(written, SlotArgs(cfg, intervals_df[index + 1]))
          /\ ops' = Append(ops, Op("update_program", ok))
          /\ err' = IF ok THEN err ELSE "update_program"
          /\ pc' = AfterWrite(ok, index, Len(intervals_df))
    /\ index' = index + 1
    /\ UNCHANGED <<self_entry, csv, address, cfg, df, intervals_df, session, ret, next_run, result>>

\* inverter_program.show_as_screen()
ShowAsScreen ==
    /\ pc = "show_as_screen"
    /\ \E ok \in BOOLEAN :
          /\ ops' = Append(ops, Op("show_as_screen", ok))
          /\ err' = IF ok THEN err ELSE "show_as_screen"
          /\ pc' = AfterShow(ok)
    /\ UNCHANGED <<self_entry, csv, address, cfg, df, intervals_df, index, session, written, ret,
                   next_run, result>>

\* inverter_program.upload_settings()
UploadSettings ==
    /\ pc = "upload_settings"
    /\ \E ok \in BOOLEAN :
          /\ ops' = Append(ops, Op("upload_settings", ok))
          /\ err' = IF ok THEN err ELSE "upload_settings"
          /\ pc' = AfterUpload(ok)
    /\ UNCHANGED <<self_entry, csv, address, cfg, df, intervals_df, index, session, written, ret,
                   next_run, result>>

\* finally: inverter_program.disconnect(), its own exception caught
Disconnect ==
    /\ pc = "disconnect"
    /\ \E ok \in BOOLEAN :
          /\ ops' = Append(ops, Op("disconnect", ok))
          /\ err' = ErrAfterDisconnect(err, ok)
    /\ pc' = "return"
    /\ UNCHANGED <<self_entry, csv, address, cfg, df, intervals_df, index, session, written, ret,
                   next_run, result>>

\* _program_inverter has returned or raised: async_run_schedule_update returns
Return ==
    /\ pc = "return"
    /\ ret' = Outcome(err)
    /\ pc' = "update_done"
    /\ UNCHANGED <<self_entry, csv, address, cfg, df, intervals_df, index, session, err, ops, written,
                   next_run, result>>

\* "Next run scheduled at" + self.update_interval
LogNextRun(v) == IF v.type = "str" THEN "logged" ELSE "TypeError"

\* the rest of _async_update_data once async_run_schedule_update returned
AsyncUpdateDataEnd ==
    /\ pc = "update_done"
    /\ result' = IF ret = "False" THEN "failed"
                 ELSE IF LogNextRun(next_run) = "logged" THEN "success"
                 ELSE "UpdateFailed"
    /\ pc' = "idle"
    /\ UNCHANGED <<self_entry, csv, address, cfg, df, intervals_df, index, session, err, ops, written,
                   ret, next_run>>

Next ==
    \/ AsyncUpdateDataBegin
    \/ LoadCsv
    \/ GenerateIntervals
    \/ Connect
    \/ UpdateProgram
    \/ ShowAsScreen
    \/ UploadSettings
    \/ Disconnect
    \/ Return
    \/ AsyncUpdateDataEnd

Spec == Init /\ [][Next]_vars

----------------------------------------------------------------------------
(* The cycle when every device operation returns or raises, and the
   executor job hands its result back *)

SpecLive ==
    /\ Init
    /\ [][Next]_vars
    /\ WF_vars(UpdateProgram)
    /\ WF_vars(ShowAsScreen)
    /\ WF_vars(UploadSettings)
    /\ WF_vars(Disconnect)
    /\ WF_vars(Return)

----------------------------------------------------------------------------
(* The cycle together with the options update listener *)

\* async_update_listener -> coordinator.update_from_config_entry(entry) ->
\* inverter.update_from_config_entry(entry). It runs on the event loop, so
\* between cycles or while a cycle awaits one of its executor jobs, but not
\* inside the code that follows the last await of _async_update_data.
\* The six assignments are taken as one step.
AsyncUpdateListener ==
    /\ pc # "update_done"
    /\ \E e \in UpdatedEntries :
          /\ self_entry' = e
          /\ cfg' = update_from_config_entry(e)
    /\ UNCHANGED <<pc, csv, address, df, intervals_df, index, session, err,
                   ops, written, ret, next_run, result>>

NextConfig ==
    \/ AsyncUpdateDataBegin
    \/ LoadCsv
    \/ GenerateIntervals
    \/ Connect
    \/ UpdateProgram
    \/ ShowAsScreen
    \/ UploadSettings
    \/ Disconnect
    \/ Return
    \/ AsyncUpdateDataEnd
    \/ AsyncUpdateListener

SpecConfig == Init /\ [][NextConfig]_vars

----------------------------------------------------------------------------
(* Properties *)

\* the cycle has left _program_inverter
Left == pc \in {"return", "update_done", "idle"}
\* async_run_schedule_update has returned
Returned == pc \in {"update_done", "idle"}

LastOp == ops[Len(ops)]

OpNames == [i \in 1..Len(ops) |-> ops[i].op]

\* C1: for every non-empty reading table with a P_hybrid_inverter column,
\* generate_intervals returns exactly 6 intervals, labelled 0..5, whatever
\* the number of same-mode runs in the table.
C1_ExactlySixIntervals ==
    pc = "gen_done" =>
        /\ Len(intervals_df) = NSlots
        /\ \A i \in 1..Len(intervals_df) : intervals_df[i].index = i - 1

\* C1 witness: a table of more than 6 runs, cut to 6 intervals
C1_Witness ==
    /\ pc = "gen_done"
    /\ Len(RawIntervals(df.rows, df.mode)) > NSlots
    /\ Len(intervals_df) = NSlots

\* C2: once the session object exists, disconnect is attempted exactly once
\* and is the last device operation of the invocation on every exit path; no
\* update_program, show_as_screen or upload_settings follows a disconnect.
C2_DisconnectOnceAndLast ==
    /\ \A i \in 1..(Len(ops) - 1) : ops[i].op # "disconnect"
    /\ (session /\ Left) => (ops # <<>> /\ LastOp.op = "disconnect")

\* C2 witness: show_as_screen failed, and the invocation ended on disconnect
C2_Witness ==
    /\ session
    /\ pc = "return"
    /\ err = "show_as_screen"
    /\ LastOp.op = "disconnect"

\* C3 as stated: when opening the session fails, a disconnect is attempted
\* before the invocation returns.
C3_ConnectFailureDisconnects ==
    (Left /\ err = "SellProgrammer") =>
        \E i \in 1..Len(ops) : ops[i].op = "disconnect"

\* C3 amended: when opening the session fails, no session object exists,
\* no further device operation (disconnect included) is attempted, and
\* async_run_schedule_update returns False.
C3_ConnectFailureNoDisconnect ==
    err = "SellProgrammer" =>
        /\ Left
        /\ ~session
        /\ ops = <<Op("SellProgrammer", FALSE)>>
        /\ written = <<>>
        /\ Returned => ret = "False"

\* C3 witness: a cycle that ended on a failed connect
C3_Witness ==
    /\ pc = "idle"
    /\ err = "SellProgrammer"
    /\ ret = "False"

\* position in ops of the first failed update_program
FirstFailedWrite ==
    CHOOSE i \in 1..Len(ops) :
        /\ ops[i] = Op("update_program", FALSE)
        /\ \A j \in 1..(i - 1) : ops[j] # Op("update_program", FALSE)

\* C4: a slot write failure at index k aborts the transaction at once: no
\* slot of a greater index is written, neither show_as_screen nor
\* upload_settings is issued, disconnect is still invoked, and
\* async_run_schedule_update returns False.
C4_WriteFailureAborts ==
    (\E i \in 1..Len(ops) : ops[i] = Op("update_program", FALSE)) =>
        /\ \A j \in (FirstFailedWrite + 1)..Len(ops) : ops[j].op = "disconnect"
        /\ \A j \in 1..Len(ops) :
              ops[j].op \notin {"show_as_screen", "upload_settings"}
        /\ Len(written) = FirstFailedWrite - 1
        /\ \A j \in 1..Len(written) : written[j].index < Len(written)
        /\ pc \in {"disconnect", "return", "update_done", "idle"}
        /\ Left => LastOp.op = "disconnect"
        /\ Returned => ret = "False"

\* C4 witness: the write of index 3 failed, writes 4 and 5 never happened
C4_Witness ==
    /\ pc = "idle"
    /\ ret = "False"
    /\ Len(written) = 4
    /\ written[4].index = 3
    /\ OpNames = <<"SellProgrammer", "update_program", "update_program",
                   "update_program", "update_program", "disconnect">>

\* C5: a disconnect failure never changes the outcome: after a fully
\* successful transaction the cycle still succeeds, and after an earlier
\* failure the error that reaches the caller is the earlier step's.
C5_DisconnectFailureKeepsOutcome ==
    (ops # <<>> /\ LastOp = Op("disconnect", FALSE)) =>
        LET failed == {i \in 1..(Len(ops) - 1) : ~ops[i].ok}
        IN /\ failed = {} => /\ err = "none"
                             /\ Returned => ret = "True"
           /\ \A i \in failed : /\ err = ops[i].op
                                /\ Returned => ret = "False"

\* C5 witness: everything succeeded but the disconnect, and the cycle
\* returned True
C5_Witness ==
    /\ pc = "idle"
    /\ ret = "True"
    /\ LastOp = Op("disconnect", FALSE)

\* C6: a cycle that fails before the transaction (load_csv fails, or
\* generate_intervals yields nothing) returns False without opening a
\* session, writing a slot or invoking disconnect.
C6_NoDeviceContactBeforeTransaction ==
    (pc \notin {"load_csv", "generate_intervals"}
        /\ (df.isNone \/ IsEmpty(df) \/ intervals_df = <<>>)) =>
        /\ ops = <<>>
        /\ written = <<>>
        /\ ~session
        /\ pc \in {"update_done", "idle"}
        /\ pc = "update_done" => ret = "False"
        /\ ret \in {"none", "False"}

\* C6 witness: the table has rows but no P_hybrid_inverter column
C6_Witness ==
    /\ pc = "idle"
    /\ ret = "False"
    /\ ~IsEmpty(df)
    /\ ~df.hasP
    /\ ops = <<>>

\* C7: in a transaction where nothing fails, exactly six update_program
\* calls are made, the k-th with index k and the k-th interval.
C7_WritesInIndexOrder ==
    (session /\ err = "none" /\ pc \notin {"update_program", "connect"}) =>
        /\ Len(written) = NSlots
        /\ \A k \in 1..Len(written) :
              /\ written[k].index = k - 1
              /\ written[k].start_t = strftime(intervals_df[k].start_time)
              /\ written[k].grid_ch = (intervals_df[k].mode = "charge")
              /\ ops[k + 1] = Op("update_program", TRUE)
        /\ ops[1] = Op("SellProgrammer", TRUE)

\* C7 witness: a successful cycle with its six writes
C7_Witness ==
    /\ pc = "idle"
    /\ ret = "True"
    /\ Len(written) = NSlots
    /\ \E k \in 1..(NSlots - 1) : written[k].start_t # written[k + 1].start_t

\* C8: show_as_screen is issued only after six successful writes,
\* upload_settings only after a successful show_as_screen; a failed
\* show_as_screen prevents the upload, and a failure of either makes
\* async_run_schedule_update return False.
C8_CommitThenUpload ==
    \A i \in 1..Len(ops) :
        /\ ops[i].op = "show_as_screen" =>
              /\ i = NSlots + 2
              /\ \A j \in 1..(i - 1) : ops[j].ok
              /\ \A j \in 2..(i - 1) : ops[j].op = "update_program"
        /\ ops[i].op = "upload_settings" =>
              /\ i > 1
              /\ ops[i - 1] = Op("show_as_screen", TRUE)
        /\ (ops[i].op \in {"show_as_screen", "upload_settings"}
                /\ ~ops[i].ok /\ Returned) => ret = "False"

\* C8 witness: show_as_screen failed, no upload followed, the cycle failed
C8_Witness ==
    /\ pc = "idle"
    /\ ret = "False"
    /\ Len(ops) = NSlots + 3
    /\ ops[NSlots + 2] = Op("show_as_screen", FALSE)
    /\ LastOp.op = "disconnect"

\* C9: after async_run_schedule_update returns True, next_run is the stop
\* time of the interval at index 5 of the schedule just programmed.
C9_NextRunIsLastStop ==
    (Returned /\ ret = "True") =>
        next_run = [type |-> "Series",
                    value |-> intervals_df[NSlots].stop_time]

\* C10: _async_update_data reports success exactly when
\* async_run_schedule_update returned True, and "failed" when it returned
\* False.
C10_CoordinatorReportsOutcome ==
    (pc = "idle" /\ ret # "none") =>
        /\ ret = "True" => result = "success"
        /\ ret = "False" => result = "failed"

\* C11: every failure inside the device transaction (connecting, writing
\* a slot, committing, uploading) surfaces as one failed outcome:
\* async_run_schedule_update returns False and nothing escapes it.
C11_TransactionFailureReturnsFalse ==
    /\ (Returned /\ ops # <<>>) => ret \in {"True", "False"}
    /\ (Returned /\ \E i \in 1..Len(ops) :
                       ~ops[i].ok /\ ops[i].op # "disconnect") =>
           ret = "False"

\* C11 witness: upload_settings failed and the cycle returned False
C11_Witness ==
    /\ pc = "update_done"
    /\ ret = "False"
    /\ Len(ops) = NSlots + 4
    /\ ops[NSlots + 3] = Op("upload_settings", FALSE)

----------------------------------------------------------------------------
(* Properties of generate_intervals and of the slot mapping *)

\* generate_intervals has just run on the table in df
GenDone == pc = "gen_done"

\* the intervals before head(6) and padding
Raw == RawIntervals(df.rows, df.mode)

\* positions of the readings that open a run of equal modes, ascending
RunStarts ==
    SelectSeq([i \in 1..Len(df.rows) |-> i],
              LAMBDA i : i = 1 \/ df.mode[i] # df.mode[i - 1])

NRuns == Len(RunStarts)

\* first and last reading of the k-th run
RunStart(k) == RunStarts[k]

RunEnd(k) == IF k = NRuns THEN Len(df.rows) ELSE RunStart(k + 1) - 1

\* C12: get_mode is total and gives discharge for power > 0, charge for
\* power < 0 and idle for power = 0.
C12_ModeBySign ==
    GenDone =>
        /\ Len(df.mode) = Len(df.rows)
        /\ \A i \in 1..Len(df.rows) :
              LET p == df.rows[i].P_hybrid_inverter
              IN /\ p > 0 => df.mode[i] = "discharge"
                 /\ p < 0 => df.mode[i] = "charge"
                 /\ p = 0 => df.mode[i] = "idle"

\* C12 witness: a table whose readings take all three signs
C12_Witness ==
    /\ pc = "gen_done"
    /\ \E i, j, k \in 1..Len(df.rows) :
          /\ df.rows[i].P_hybrid_inverter > 0 /\ df.mode[i] = "discharge"
          /\ df.rows[j].P_hybrid_inverter < 0 /\ df.mode[j] = "charge"
          /\ df.rows[k].P_hybrid_inverter = 0 /\ df.mode[k] = "idle"

\* C13: the raw intervals are exactly the maximal runs of equal modes, in
\* order: the k-th has the mode of the k-th run, starts at the timestamp of
\* its first reading and stops at that of its last; neighbours differ in
\* mode; the first starts at the first reading, the last stops at the last
\* reading, and every reading lies in exactly one interval.
C13_RawIntervalsAreRuns ==
    GenDone =>
        LET raw == Raw
            first == RunStarts
            last == [k \in 1..Len(first) |->
                        IF k = Len(first) THEN Len(df.rows)
                        ELSE first[k + 1] - 1]
        IN /\ Len(raw) = Len(first)
           /\ \A k \in 1..Len(raw) :
                 /\ raw[k].mode = df.mode[first[k]]
                 /\ raw[k].start_time = df.rows[first[k]].timestamp
                 /\ raw[k].stop_time = df.rows[last[k]].timestamp
                 /\ \A i \in first[k]..last[k] : df.mode[i] = raw[k].mode
           /\ \A k \in 1..(Len(raw) - 1) : raw[k].mode # raw[k + 1].mode
           /\ raw[1].start_time = df.rows[1].timestamp
           /\ raw[Len(raw)].stop_time = df.rows[Len(df.rows)].timestamp
           /\ \A i \in 1..Len(df.rows) :
                 Cardinality({k \in 1..Len(raw) :
                                 first[k] <= i /\ i <= last[k]}) = 1

\* C13 witness: three runs, the middle one of two readings
C13_Witness ==
    /\ pc = "gen_done"
    /\ Len(Raw) = 3
    /\ RunEnd(2) = RunStart(2) + 1
    /\ Raw[2].start_time < Raw[2].stop_time
    /\ Raw[1].stop_time < Raw[2].start_time

\* C14: for tables sorted by timestamp, equal timestamps included, no
\* instant belongs to two different raw intervals [start, stop].
C14_NoOverlap ==
    GenDone =>
        LET raw == Raw
        IN \A j, k \in 1..Len(raw) :
              j < k => raw[j].stop_time < raw[k].start_time

\* C15: with at least 6 raw intervals the schedule is the first 6 of them,
\* in order, start, stop and mode unchanged; the rest is dropped.
C15_TruncationKeepsFirstSix ==
    (GenDone /\ Len(Raw) >= NSlots) =>
        /\ Len(intervals_df) = NSlots
        /\ \A k \in 1..NSlots :
              /\ intervals_df[k].start_time = Raw[k].start_time
              /\ intervals_df[k].stop_time = Raw[k].stop_time
              /\ intervals_df[k].mode = Raw[k].mode

\* C15 witness: seven raw intervals, the seventh dropped
C15_Witness ==
    /\ pc = "gen_done"
    /\ Len(Raw) = NSlots + 1
    /\ intervals_df[NSlots].stop_time = Raw[NSlots].stop_time
    /\ Raw[NSlots + 1].stop_time > Raw[NSlots].stop_time

\* C16: with k < 6 raw intervals the schedule is those k, unchanged and in
\* order, then 6 - k idle intervals, each starting one minute after the
\* stop of the interval before it and stopping one minute after its start.
C16_PaddingChain ==
    (GenDone /\ Len(Raw) < NSlots) =>
        /\ Len(intervals_df) = NSlots
        /\ \A k \in 1..Len(Raw) :
              /\ intervals_df[k].start_time = Raw[k].start_time
              /\ intervals_df[k].stop_time = Raw[k].stop_time
              /\ intervals_df[k].mode = Raw[k].mode
        /\ \A k \in (Len(Raw) + 1)..NSlots :
              /\ intervals_df[k].mode = "idle"
              /\ intervals_df[k].start_time =
                     intervals_df[k - 1].stop_time + MinuteSecs
              /\ intervals_df[k].stop_time =
                     intervals_df[k].start_time + MinuteSecs

\* C16 witness: charge, discharge, idle, then three synthetic intervals
C16_Witness ==
    /\ pc = "gen_done"
    /\ Len(Raw) = 3
    /\ <<Raw[1].mode, Raw[2].mode, Raw[3].mode>> =
           <<"charge", "discharge", "idle">>
    /\ intervals_df[NSlots].start_time =
           Raw[3].stop_time + 5 * MinuteSecs

\* C17 as stated: the padded tail is idle, each interval one minute wide,
\* and no time lies between the stop of one padded interval and the start
\* of the next.
C17_PaddedTailNoGaps ==
    (GenDone /\ Len(Raw) < NSlots) =>
        /\ \A k \in (Len(Raw) + 1)..NSlots :
              /\ intervals_df[k].mode = "idle"
              /\ intervals_df[k].stop_time - intervals_df[k].start_time =
                     MinuteSecs
        /\ \A k \in (Len(Raw) + 1)..(NSlots - 1) :
              intervals_df[k + 1].start_time = intervals_df[k].stop_time

\* C17 amended: the padded tail is idle, each interval one minute wide,
\* and each padded interval starts exactly one minute after the stop of
\* the padded interval before it.
C17_PaddedTailOneMinuteApart ==
    (GenDone /\ Len(Raw) < NSlots) =>
        /\ \A k \in (Len(Raw) + 1)..NSlots :
              /\ intervals_df[k].mode = "idle"
              /\ intervals_df[k].stop_time - intervals_df[k].start_time =
                     MinuteSecs
        /\ \A k \in (Len(Raw) + 1)..(NSlots - 1) :
              intervals_df[k + 1].start_time - intervals_df[k].stop_time =
                  MinuteSecs

\* C17 witness: one raw interval and a padded tail of five
C17_Witness ==
    /\ pc = "gen_done"
    /\ Len(Raw) = 1
    /\ \A k \in 2..NSlots : intervals_df[k].mode = "idle"
    /\ intervals_df[3].start_time > intervals_df[2].stop_time

\* C18: a schedule interval with start = stop is written as a one-minute
\* window (stop_t is start plus one minute), one with start < stop with its
\* start and stop unchanged, at each index 0..5.
C18_ZeroLengthWidened ==
    pc = "gen_mapped" =>
        /\ Len(written) = Len(intervals_df)
        /\ \A k \in 1..Len(written) :
              LET iv == intervals_df[k]
              IN /\ written[k].start_t = strftime(iv.start_time)
                 /\ iv.start_time = iv.stop_time =>
                       written[k].stop_t = strftime(iv.start_time + MinuteSecs)
                 /\ iv.start_time < iv.stop_time =>
                       written[k].stop_t = strftime(iv.stop_time)

\* C18 witness: the interval at index 5 has start = stop, the one at index
\* 0 has start < stop
C18_Witness ==
    /\ pc = "gen_mapped"
    /\ intervals_df[NSlots].start_time = intervals_df[NSlots].stop_time
    /\ written[NSlots].stop_t # written[NSlots].start_t
    /\ intervals_df[1].start_time < intervals_df[1].stop_time
    /\ written[1].stop_t = strftime(intervals_df[1].stop_time)

\* C19: a charge slot carries soc = maxSoC_percent, power =
\* peak_charge_power and grid_ch true; a discharge slot carries soc =
\* minSoC_percent, power = inverter_power and grid_ch false; gen_ch is
\* false in every slot.
C19_ChargeDischargeParameters ==
    pc = "gen_mapped" =>
        \A k \in 1..Len(written) :
            /\ written[k].gen_ch = FALSE
            /\ intervals_df[k].mode = "charge" =>
                  /\ written[k].soc = cfg.maxSoC_percent
                  /\ written[k].power = cfg.peak_charge_power
                  /\ written[k].grid_ch = TRUE
            /\ intervals_df[k].mode = "discharge" =>
                  /\ written[k].soc = cfg.minSoC_percent
                  /\ written[k].power = cfg.inverter_power
                  /\ written[k].grid_ch = FALSE

\* C19 witness: a schedule with a charge and a discharge slot
C19_Witness ==
    /\ pc = "gen_mapped"
    /\ \E j, k \in 1..Len(written) :
          /\ intervals_df[j].mode = "charge"
          /\ written[j].power = cfg.peak_charge_power
          /\ intervals_df[k].mode = "discharge"
          /\ written[k].power = cfg.inverter_power
          /\ written[j].power # written[k].power

\* C20: an idle slot, real or padding, carries power = 1, soc =
\* minSoC_percent and grid_ch false, whatever the configuration.
C20_IdleParameters ==
    pc = "gen_mapped" =>
        \A k \in 1..Len(written) :
            intervals_df[k].mode = "idle" =>
                /\ written[k].power = 1
                /\ written[k].soc = cfg.minSoC_percent
                /\ written[k].grid_ch = FALSE

\* C20 witness: a real idle interval and a padding interval, both written
\* with power 1
C20_Witness ==
    /\ pc = "gen_mapped"
    /\ Len(Raw) < NSlots
    /\ \E k \in 1..Len(Raw) : Raw[k].mode = "idle" /\ written[k].power = 1
    /\ written[NSlots].power = 1
    /\ cfg.inverter_power # 1

(* C22: no slot is written with identical serialized start and stop times:
   in every update_program call derived from a schedule of ascending
   readings, the HH:MM string passed as start_t differs from the one
   passed as stop_t *)
C22_StartDiffersFromStop ==
    pc = "gen_mapped" =>
        \A k \in 1..Len(written) : written[k].start_t # written[k].stop_t

(* C23: in every schedule generate_intervals returns for ascending
   readings, each interval has start <= stop, and the stop of interval k
   is not later than the start of interval k+1, for the real intervals,
   the seam to the first synthetic one and the synthetic ones *)
C23_OrderedInTime ==
    GenDone =>
        /\ Len(intervals_df) = NSlots
        /\ \A k \in 1..NSlots :
              intervals_df[k].start_time <= intervals_df[k].stop_time
        /\ \A k \in 1..(NSlots - 1) :
              intervals_df[k].stop_time <= intervals_df[k + 1].start_time

C23_Witness ==
    /\ GenDone
    /\ LET raw == Raw
       IN /\ Len(raw) = 3
          /\ raw[1].start_time < raw[1].stop_time
          /\ raw[2].stop_time < raw[3].start_time
    /\ intervals_df[3].stop_time < intervals_df[4].start_time
    /\ intervals_df[5].stop_time < intervals_df[6].start_time

(* C24: a second run of generate_intervals on the same loaded readings,
   which finds the mode column the first run wrote into the table,
   returns the same six intervals with the same start, stop and mode *)
C24_SecondRunSameSchedule ==
    [][(pc = "gen_done" /\ pc' = "gen_again") =>
          /\ Len(intervals_df') = NSlots
          /\ Len(intervals_df) = NSlots
          /\ \A k \in 1..NSlots :
                /\ intervals_df'[k].start_time = intervals_df[k].start_time
                /\ intervals_df'[k].stop_time = intervals_df[k].stop_time
                /\ intervals_df'[k].mode = intervals_df[k].mode]_vars

C24_Witness ==
    /\ pc = "gen_again"
    /\ Len(df.mode) = Len(df.rows)
    /\ Len(intervals_df) = NSlots
    /\ \E k \in 1..NSlots : intervals_df[k].mode # "idle"

----------------------------------------------------------------------------
(* Properties of the cycle with configuration updates, and across cycles *)

(* C21: all slots written within one transaction use one and the same
   configuration, also when update_from_config_entry runs while
   _program_inverter executes: some single configuration value accounts
   for the session's address and serial and for every slot written *)
C21_OneConfigPerTransaction ==
    \E c \in AllConfigs :
        /\ address # <<>> =>
               address = <<c.inverter_ip, c.inverter_serial>>
        /\ \A k \in 1..Len(written) :
               written[k] = SlotArgs(c, intervals_df[k])

(* C25: once a session is open the cycle reaches a terminal outcome: the
   disconnect is attempted and async_run_schedule_update then returns True
   or False; and the transaction never goes back to writing an earlier
   slot, each write being the one after the last *)
C25_TransactionTerminates ==
    /\ (session /\ pc \in {"update_program", "show_as_screen",
                            "upload_settings", "disconnect", "return"})
          ~> (IF pc = "update_done" /\ ops # <<>>
              THEN LastOp.op = "disconnect" /\ ret \in {"True", "False"}
              ELSE FALSE)
    /\ [][(session /\ pc' = "update_program") =>
             (pc = "update_program" /\ index' = index + 1)]_vars

C25_Witness ==
    /\ pc = "update_done"
    /\ session
    /\ Len(written) = NSlots
    /\ LastOp.op = "disconnect"
    /\ ret = "True"

(* C26: after update_from_config_entry(entry) each of the six attributes
   equals what constructing a new inverter from the same entry reads *)
C26_UpdateReadsWhatInitReads == cfg = InitConfig(self_entry)

\* the load of this cycle has been made
Loaded == pc \notin {"idle", "load_csv"} \/ (pc = "idle" /\ ret # "none")

\* files for which load_csv returns False
LoadFails(file) == ~file.exists \/ ~file.parses \/ file.rows = <<>>

\* the schedule of the readings of a file
ScheduleOf(file) ==
    generate_intervals([isNone |-> FALSE, hasP |-> file.hasP,
                        numericP |-> file.numericP,
                        rows |-> sort_values(file.rows),
                        mode |-> <<>>]).intervals_df

(* C27: in any cycle of any sequence of cycles, if the load fails then the
   table kept is empty or the cycle aborts, and nothing is done on the
   device; if it succeeds, the table holds the readings of this cycle's
   file and every slot written comes from their schedule *)
C27_NoStaleReadings ==
    Loaded =>
        IF LoadFails(csv)
        THEN /\ IsEmpty(df) \/ (Returned /\ ret = "False")
             /\ ops = <<>>
             /\ written = <<>>
        ELSE /\ df.rows = sort_values(csv.rows)
             /\ written # <<>> =>
                   LET schedule == ScheduleOf(csv)
                   IN \A k \in 1..Len(written) :
                         written[k] = SlotArgs(cfg, schedule[k])

C27_Witness ==
    /\ pc = "update_done"
    /\ ~csv.exists
    /\ IsEmpty(df)
    /\ ret = "False"
    /\ ops = <<>>

====
